---- MODULE Spec2Model ----
(***************************************************************************)
(* Cycle-level model of the Gemmini systolic-array simulator:              *)
(*   MatrixMultiplier  (src/src/gemmini/matrix_multiplier.cpp)             *)
(*   SystolicArray     (src/src/gemmini/systolic_array.cpp)                *)
(*   PE                (src/src/gemmini/pe.cpp)                            *)
(* The multiplier is driven through multiply(), as GemminiSimulation does;   *)
(* its input ports are bound nowhere.                                      *)
(* Ports are modelled as a queue of messages in flight: a send appends the *)
(* message, the scheduler delivers the messages of a cycle in the order    *)
(* they were sent, and the next clock tick happens only once every message *)
(* of the cycle has been delivered.                                        *)
(***************************************************************************)
EXTENDS Integers, Sequences, FiniteSets, TLC

\* ------------------------------------------------------------------ bounds
\* Largest number of rows of A / columns of B offered to multiply().
MaxM == 3
MaxN == 3
\* Largest number of multiply() calls made on the orchestrator.
MaxCalls == 2

\* Inner dimensions (A.cols, B.rows) offered to multiply().
InnerDims == {2, 4}
\* Block dimensions <<systolic_rows, systolic_cols>> the MatrixMultiplier is
\* configured with.
SysConfigs == {<<2, 2>>, <<4, 4>>}
\* Values an out-of-bounds read of a std::vector can return.
GarbageVals == {0, 9}

\* ------------------------------------------------------- program constants
\* SystolicArrayParameterSet defaults: the MatrixMultiplier builds its array
\* from a default parameter set.
DefaultRows == 4
DefaultCols == 4
DefaultComputeTime == 1

\* Number of values of int16_t.
I16 == 2^16

\* ------------------------------------------------------------------- state
VARIABLES
    \* MatrixMultiplier
    systolic_rows_, systolic_cols_,
    busy_, current_row_block_, current_col_block_,
    total_row_blocks_, total_col_blocks_,
    matrix_a_, matrix_b_, result_matrix_,
    total_mms_, total_blocks_,
    out_result,
    \* SystolicArray
    rows_, cols_, compute_time_,
    processing_, current_cycle_, total_cycles_needed_,
    current_input_, array_result_,
    total_matrix_ops_,
    pe_weight, pe_data,
    \* ports: messages sent and not yet delivered
    inflight,
    \* history of the run (not program state)
    hist,
    \* PE (gemmini/pe)
    mWeightReg, mActReg, mPartialSumReg,
    mBusy, mCycleCounter, mWeightLoadingMode, mTotalMacs,
    \* values the PE sent on its east (activation) and south (weight / partial
    \* sum) output ports, oldest first
    outAct, outWtPs,
    \* history of the PE's run (not program state)
    pe_hist,
    \* DelayFifo (utils/fifo.hpp): mFifo, mDepth, the values sent on its out
    \* port (oldest first), and whether a tick touched an empty deque
    fifo,
    \* history of the DelayFifo's run (not program state)
    fifo_hist,
    \* PE of the execute variant (execute/pe): its registers, its
    \* configuration and its two delay FIFOs
    xpe,
    \* history of that PE's run (not program state)
    xpe_hist,
    \* SystolicArray of the execute variant (execute/systolic_array): its
    \* members, its PEs and the matrices sent on out_results (oldest first)
    xsa,
    \* history of that array's run (not program state)
    xsa_hist,
    \* GemminiSimulation::runSimulation: the scheduler cycles run so far and
    \* what the read after the run found
    sim

mmVars == <<systolic_rows_, systolic_cols_, busy_, current_row_block_,
            current_col_block_, total_row_blocks_, total_col_blocks_,
            matrix_a_, matrix_b_, result_matrix_, total_mms_, total_blocks_,
            out_result>>
saVars == <<rows_, cols_, compute_time_, processing_, current_cycle_,
            total_cycles_needed_, current_input_, array_result_,
            total_matrix_ops_, pe_weight, pe_data>>
peVars == <<mWeightReg, mActReg, mPartialSumReg, mBusy, mCycleCounter,
            mWeightLoadingMode, mTotalMacs, outAct, outWtPs, pe_hist>>
\* The gemmini variant: multiplier, array, ports and PE.
gmVars == <<mmVars, saVars, inflight, hist, peVars>>
\* The DelayFifo and what is built from it.
fifoVars == <<fifo, fifo_hist>>
xpeVars == <<xpe, xpe_hist>>
xsaVars == <<xsa, xsa_hist>>
simVars == <<sim>>
exVars == <<fifoVars, xpeVars, xsaVars, simVars>>
vars == <<mmVars, saVars, inflight, hist, peVars, exVars>>

\* ----------------------------------------------------------------- helpers
Min(a, b) == IF a < b THEN a ELSE b

\* std::min(limit, a - b) over uint32_t for a, b, limit far below 2^31: when
\* b > a the difference wraps to 2^32 - (b - a), which exceeds limit.
MinSub32(limit, a, b) == IF a >= b THEN Min(limit, a - b) ELSE limit

\* Conversion of an int to int16_t (two's complement, modulo 2^16).
ToInt16(x) == LET m == x % I16 IN IF m >= I16 \div 2 THEN m - I16 ELSE m

\* A null MatrixPtr / VectorPtr.
Null == [rows |-> 0, cols |-> 0, data |-> <<>>, null |-> TRUE]

\* Matrix(rows, cols): row-major storage, zero filled.
Matrix(r, c) == [rows |-> r, cols |-> c, data |-> [i \in 1..(r * c) |-> 0], null |-> FALSE]

\* Flat index Matrix::at(row, col) touches.
FlatIndex(m, r, c) == r * m.cols + c

\* Whether Matrix::at(row, col) stays inside the vector's storage.
InStorage(m, r, c) == FlatIndex(m, r, c) < Len(m.data)

\* Matrix::at(row, col) as an rvalue; g is what a read past the storage yields.
ReadAt(m, r, c, g) == IF InStorage(m, r, c) THEN m.data[FlatIndex(m, r, c) + 1] ELSE g

\* Matrix::at(row, col) = v; a write past the storage does not land in the matrix.
WriteAt(m, r, c, v) ==
    IF InStorage(m, r, c)
    THEN [m EXCEPT !.data[FlatIndex(m, r, c) + 1] = ToInt16(v)]
    ELSE m

\* Entry (r, c) of a matrix, for r < rows and c < cols.
Entry(m, r, c) == m.data[r * m.cols + c + 1]

\* An operand offered to multiply(): entries seed, seed+1, ... in row-major order.
Operand(r, c, seed) ==
    [rows |-> r, cols |-> c, data |-> [i \in 1..(r * c) |-> seed + i - 1], null |-> FALSE]

OperandsA == {Operand(m, k, 1) : m \in 1..MaxM, k \in InnerDims}
OperandsB == {Operand(k, n, 5) : k \in InnerDims, n \in 1..MaxN}

\* Messages on the ports between the MatrixMultiplier and the SystolicArray.
\* blk names the block a message was built for (history only, not payload).
Msg(p, d, blk) == [port |-> p, data |-> d, blk |-> blk]

\* No block.
NoBlock == <<>>

\* ------------------------------------------------------- MatrixMultiplier
\* row_offset / col_offset of a block.
RowOffset(rb) == rb * systolic_rows_
ColOffset(cb) == cb * systolic_cols_

\* block_rows / block_cols: std::min over uint32_t, the subtraction wraps.
BlockRows(a, rb) == MinSub32(systolic_rows_, a.rows, RowOffset(rb))
BlockCols(b, cb) == MinSub32(systolic_cols_, b.cols, ColOffset(cb))

\* total_row_blocks_ / total_col_blocks_ (integer division rounds down).
TotalRowBlocks(a) == (a.rows + systolic_rows_ - 1) \div systolic_rows_
TotalColBlocks(b) == (b.cols + systolic_cols_ - 1) \div systolic_cols_

\* Whether the weight loop of processNextBlock_ writes weights->at(r, c).
WeightFilled(a, b, rb, cb, r, c) ==
    /\ r < BlockRows(a, rb)
    /\ c < BlockCols(b, cb)
    /\ RowOffset(rb) + r < a.rows
    /\ c < b.rows

\* The element of B the weight loop reads for weights->at(r, c).
WeightSourceRow(r, c) == c
WeightSourceCol(cb, r, c) == ColOffset(cb) + r

\* The weight matrix processNextBlock_ builds for block (rb, cb).
BlockWeights(a, b, rb, cb, g) ==
    [rows |-> systolic_rows_, cols |-> systolic_cols_, null |-> FALSE,
     data |-> [i \in 1..(systolic_rows_ * systolic_cols_) |->
        LET r == (i - 1) \div systolic_cols_
            c == (i - 1) % systolic_cols_
        IN  IF WeightFilled(a, b, rb, cb, r, c)
            THEN ReadAt(b, WeightSourceRow(r, c), WeightSourceCol(cb, r, c), g)
            ELSE 0]]

\* Whether building the weights of block (rb, cb) reads B past its storage.
WeightReadsPastStorage(a, b, rb, cb) ==
    \E r \in 0..(systolic_rows_ - 1), c \in 0..(systolic_cols_ - 1) :
        /\ WeightFilled(a, b, rb, cb, r, c)
        /\ ~InStorage(b, WeightSourceRow(r, c), WeightSourceCol(cb, r, c))

\* The row vectors processNextBlock_ builds for block row rb, in sending order.
BlockVectors(a, rb) ==
    [r \in 1..BlockRows(a, rb) |->
        [c \in 1..a.cols |->
            IF RowOffset(rb) + (r - 1) < a.rows
            THEN Entry(a, RowOffset(rb) + (r - 1), c - 1)
            ELSE 0]]

\* Issuing a block and, without waiting for its result, the block to its
\* right as well (not what the code sends).
BlockMessagesAhead(a, b, rb, cb, g) ==
    <<Msg("weights", BlockWeights(a, b, rb, cb, g), <<rb, cb>>)>> \o
    [r \in 1..BlockRows(a, rb) |-> Msg("vector", BlockVectors(a, rb)[r], <<rb, cb>>)] \o
    <<Msg("weights", BlockWeights(a, b, rb, cb + 1, g), <<rb, cb + 1>>)>> \o
    [r \in 1..BlockRows(a, rb) |-> Msg("vector", BlockVectors(a, rb)[r], <<rb, cb + 1>>)]

\* What processNextBlock_ sends: the weights, then one vector per block row.
BlockMessages(a, b, rb, cb, g) ==
    <<Msg("weights", BlockWeights(a, b, rb, cb, g), <<rb, cb>>)>> \o
    [r \in 1..BlockRows(a, rb) |-> Msg("vector", BlockVectors(a, rb)[r], <<rb, cb>>)]

\* History: the blocks whose weights a sequence of sent messages issues.
RECURSIVE IssuedBy(_)
IssuedBy(msgs) ==
    IF msgs = <<>> THEN <<>>
    ELSE (IF Head(msgs).port = "weights" THEN <<Head(msgs).blk>> ELSE <<>>)
         \o IssuedBy(Tail(msgs))

\* The copy loop of handleSystolicResults_, iteration k of n in loop order
\* (r outer, c inner): result_matrix_->at(ro + r, co + c) = results->at(r, c).
RECURSIVE CopyLoop(_, _, _, _, _, _, _, _)
CopyLoop(res, results, ro, co, bc, k, n, g) ==
    IF k >= n THEN res
    ELSE LET r == k \div bc
             c == k % bc
         IN  CopyLoop(WriteAt(res, ro + r, co + c, ReadAt(results, r, c, g)),
                      results, ro, co, bc, k + 1, n, g)

\* The result matrix after the block result `results` is placed for block (rb, cb).
PlaceBlock(res, results, a, b, rb, cb, g) ==
    CopyLoop(res, results, RowOffset(rb), ColOffset(cb), BlockCols(b, cb), 0,
             BlockRows(a, rb) * BlockCols(b, cb), g)

\* The (r, c) pairs the copy loop visits for block (rb, cb).
CopyPairs(a, b, rb, cb) ==
    (0..(BlockRows(a, rb) - 1)) \X (0..(BlockCols(b, cb) - 1))

\* Whether placing block (rb, cb) reads `results` past its storage.
PlaceReadsPastStorage(results, a, b, rb, cb) ==
    \E p \in CopyPairs(a, b, rb, cb) : ~InStorage(results, p[1], p[2])

\* Whether placing block (rb, cb) writes `res` past its storage.
PlaceWritesPastStorage(res, a, b, rb, cb) ==
    \E p \in CopyPairs(a, b, rb, cb) :
        ~InStorage(res, RowOffset(rb) + p[1], ColOffset(cb) + p[2])

\* A column-first traversal of the blocks (not the code's order).
NextBlockColumnFirst(rb, cb, trb, tcb) ==
    IF rb + 1 >= trb THEN <<0, cb + 1, cb + 1 >= tcb>> ELSE <<rb + 1, cb, FALSE>>

\* The block counters after "move to next block": <<row block, col block, done>>.
NextBlock(rb, cb, trb, tcb) ==
    IF cb + 1 >= tcb
    THEN <<rb + 1, 0, rb + 1 >= trb>>
    ELSE <<rb, cb + 1, FALSE>>

\* MatrixMultiplier::getResult().
getResult == result_matrix_

\* The garbage values a handler can observe: one choice when it reads past a
\* vector's storage, none to choose otherwise.
Garbage(readsPast) == IF readsPast THEN GarbageVals ELSE {0}

\* ---------------------------------------------------------- SystolicArray
Cells == (0..(rows_ - 1)) \X (0..(cols_ - 1))

\* SystolicArray::SystolicArray: the PE-to-PE bindings the constructor makes,
\* <<output port, from PE, to PE>>.  Only the data output of a PE is bound, to
\* the data input of the PE on its right.
ArrayBindings(rows, cols) ==
    {<<"act", <<r, c>>, <<r, c + 1>>>> :
        r \in 0..(rows - 1), c \in {k \in 0..(cols - 1) : k < cols - 1}}

\* total_cycles_needed_ of one vector pass.
TotalCyclesNeeded == rows_ + cols_ - 1 + compute_time_

\* The PE that row r feeds at cycle t (active_col = current_cycle_ - r), if any.
ActiveCol(t, r) == t - r
Fed(t, r) == ActiveCol(t, r) >= 0 /\ ActiveCol(t, r) < cols_ /\ r < Len(current_input_)

\* The value computationComplete_ stores in result_matrix_->at(r, 0).
CollectedResult(r) == 0

\* The result matrix computationComplete_ sends.
CollectedMatrix ==
    [array_result_ EXCEPT !.data =
        [i \in 1..Len(array_result_.data) |->
            IF i - 1 < rows_ THEN ToInt16(CollectedResult(i - 1)) ELSE array_result_.data[i]]]

\* ------------------------------------------------------------ PE helpers
\* Largest number of calls made on the PE.
MaxPEOps == 4

\* Largest and smallest int32_t.
MaxI32 == 2^30 + (2^30 - 1)
MinI32 == (-MaxI32) - 1

\* Values given to the PE: weights and activations (int16_t), values arriving
\* from the north (int32_t; the largest one makes the accumulation overflow),
\* and weight-valid signals (uint32_t).
PEWeights == {-3, 5}
PEActs == {4, -2}
PEPsums == {0, 10, -7, MaxI32}
PEValids == {0, 1, 2}

\* x + y leaves the range of int32_t.
Overflows(x, y) ==
    \/ y > 0 /\ x > MaxI32 - y
    \/ y < 0 /\ x < MinI32 - y

\* x + y modulo 2^32, mapped into the range of int32_t.
Wrap32(x, y) ==
    IF y > 0 /\ x > MaxI32 - y THEN (x - MaxI32 - 1) + (y - MaxI32 - 1)
    ELSE IF y < 0 /\ x < MinI32 - y THEN (x + MaxI32 + 1) + (y + MaxI32 + 1)
    ELSE x + y

\* A MAC that ignores the incoming partial sum (not what the code computes).
MacOutcomesNoAccumulate(wtPs, w, a) == {w * a}

\* A MAC that adds onto the result of the MAC before (not what the code
\* computes).
MacOutcomesCarry(wtPs, w, a) == {wtPs + w * a + mPartialSumReg}

\* PE::HandleWeightPartialSum, compute mode: the values 'wtPs + mac' can take.
\* Signed overflow is undefined: the wrapped value or any other one.
MacOutcomes(wtPs, w, a) ==
    IF Overflows(wtPs, w * a)
    THEN {Wrap32(wtPs, w * a)} \cup GarbageVals
    ELSE {wtPs + w * a}

\* PE::HandleWeightPartialSum, weight-loading mode: the low mWeightWidth bits
\* of the incoming value, stored in the int16_t weight register.
LoadedWeight(wtPs) == ToInt16(wtPs % I16)

InitPE ==
    /\ mWeightReg = 0
    /\ mActReg = 0
    /\ mPartialSumReg = 0
    /\ mBusy = FALSE
    /\ mCycleCounter = 0
    /\ mWeightLoadingMode = FALSE
    /\ mTotalMacs = 0
    /\ outAct = <<>>
    /\ outWtPs = <<>>
    /\ pe_hist = [op |-> "init", calls |-> 0, wtPs |-> 0, weight |-> 0, act |-> 0,
                  \* whether the array meant the value received last in
                  \* weight-loading mode for this PE (the PE is not told)
                  recipient |-> FALSE,
                  \* the activations received and the weight set last
                  acts |-> <<>>, set |-> 0]

\* ----------------------------------------------------------- DelayFifo
\* Largest FIFO depth, number of pushes, and last cycle in which a push is made.
MaxDepth == 2
MaxPushes == 3
MaxPushCycle == 2

\* Default of the parameter 'depth'.
DefaultDepth == 1

\* Configured depths (0 is what a PE with delay_cycles = 0 asks for).
FifoDepths == 0..MaxDepth

\* Values pushed.
FifoVals == {7, 8}

\* DelayFifo::DelayFifo.
NewFifo(depth) == [mFifo |-> <<>>, mDepth |-> depth, out |-> <<>>, ub |-> FALSE]

\* DelayFifo::Push -> HandleInput.
FifoHandleInput(f, data) == [f EXCEPT !.mFifo = Append(@, data)]

\* A tick that emits whenever the FIFO is not empty (not the code's test).
FifoEmitsAny(f) == Len(f.mFifo) >= 1

\* DelayFifo::Tick emits: mFifo.size() >= mDepth.
FifoEmits(f) == Len(f.mFifo) >= f.mDepth

\* DelayFifo::Tick: the states it can leave the FIFO in.  front() and
\* pop_front() on an empty deque (depth 0) are undefined: some value is sent,
\* and the FIFO is not followed any further after that.
FifoTick(f) ==
    IF f.ub \/ ~FifoEmits(f) THEN {f}
    ELSE IF f.mFifo = <<>>
         THEN {[f EXCEPT !.out = Append(@, g), !.ub = TRUE] : g \in GarbageVals}
         ELSE {[f EXCEPT !.mFifo = Tail(@), !.out = Append(@, Head(f.mFifo))]}

\* The cycle counter of the history stops counting here.
LastCycle == MaxPushCycle + MaxDepth + 2

InitFifo(depth) ==
    /\ fifo = NewFifo(depth)
    /\ fifo_hist = [op |-> "init", cycle |-> 0, ticked |-> FALSE,
                    \* <<value, cycle>> of every push and of every emission
                    pushed |-> <<>>, emitted |-> <<>>]

\* ------------------------------------------------------ PE (execute)
MaxComputeCycles == 2
MaxXOps == 4
DefaultComputeCycles == 0
DefaultDelayCycles == 1
MaxDelayCycles == 2
\* delay_cycles >= 1 (with 0 the delay FIFOs tick on an empty deque)
DelayCycles == 1..MaxDelayCycles
ComputeCycles == 0..MaxComputeCycles
\* Operand values; every sum of a partial sum and a product of them stays far
\* inside int32_t.
XWeights == {2, 3}
XActs == {1, 4}
XPsums == {0, 10}

\* PEInput / PEOutput after construction.
NoData == [act |-> 0, psum |-> 0, act_valid |-> FALSE, psum_valid |-> FALSE]

\* PE::PE: the registers after construction; both delay FIFOs have depth
\* delay_cycles.
NewXPE(compute_cycles, delay_cycles) ==
    [mInput |-> NoData, mOutput |-> NoData,
     mWeightReg |-> 0, mPartialSumReg |-> 0,
     mBusy |-> FALSE, mCycleCounter |-> 0,
     mComputeCycles |-> compute_cycles, mDelayCycles |-> delay_cycles,
     mTotalMacs |-> 0,
     mActDelayFifo |-> NewFifo(delay_cycles),
     mPsumDelayFifo |-> NewFifo(delay_cycles)]

\* PE::CanCompute.
XCanCompute(x) == x.mInput.act_valid /\ x.mInput.psum_valid /\ ~x.mBusy

\* PE::ComputeMAC.
XComputeMAC(x) ==
    LET product == x.mWeightReg * x.mInput.act
        reg == x.mInput.psum + product
        y == [x EXCEPT !.mPartialSumReg = reg,
                       !.mOutput = [act |-> x.mInput.act, psum |-> reg,
                                    act_valid |-> TRUE, psum_valid |-> TRUE],
                       !.mInput.act_valid = FALSE,
                       !.mInput.psum_valid = FALSE,
                       !.mTotalMacs = @ + 1]
    IN  IF x.mComputeCycles > 0
        THEN [y EXCEPT !.mBusy = TRUE, !.mCycleCounter = x.mComputeCycles]
        ELSE [y EXCEPT !.mPsumDelayFifo = FifoHandleInput(@, reg)]

\* PE::HandleWeight (SetWeight).
XHandleWeight(x, weight) == [x EXCEPT !.mWeightReg = weight]

\* PE::HandleActivation (ReceiveActivation).
XHandleActivation(x, act) ==
    LET y == [x EXCEPT !.mInput.act = act, !.mInput.act_valid = TRUE,
                       !.mOutput.act = act, !.mOutput.act_valid = TRUE,
                       !.mActDelayFifo = FifoHandleInput(@, act)]
    IN  IF XCanCompute(y) THEN XComputeMAC(y) ELSE y

\* PE::HandlePartialSum (ReceivePartialSum).
XHandlePartialSum(x, partialSum) ==
    LET y == [x EXCEPT !.mInput.psum = partialSum, !.mInput.psum_valid = TRUE,
                       !.mOutput.psum = partialSum,
                       !.mOutput.psum_valid = FALSE]
    IN  IF XCanCompute(y) THEN XComputeMAC(y) ELSE y

\* PE::Tick.
XTick(x) ==
    IF ~x.mBusy THEN x
    ELSE LET counter == IF x.mCycleCounter > 0 THEN x.mCycleCounter - 1
                        ELSE x.mCycleCounter
         IN  IF counter = 0
             THEN [x EXCEPT !.mCycleCounter = counter, !.mBusy = FALSE,
                            !.mPsumDelayFifo = FifoHandleInput(@, x.mOutput.psum)]
             ELSE [x EXCEPT !.mCycleCounter = counter]

InitXPE(compute_cycles, delay_cycles) ==
    /\ xpe = NewXPE(compute_cycles, delay_cycles)
    /\ xpe_hist = [op |-> "init", ops |-> 0,
                   \* the MAC started last: what its pair must produce, and the
                   \* ticks seen since it started
                   expected |-> 0, ticks |-> 0,
                   \* every value handed to the partial-sum delay FIFO
                   forwarded |-> <<>>]

\* ------------------------------------------- SystolicArray (execute)
\* The constructor looks every neighbour's tree node up before that node is
\* created, so no PE output is bound to a neighbour: the PEs of the array
\* receive only what the array's handlers hand them.
MaxVectors == 2
MaxXSAOps == 3
DefaultXRows == 4
DefaultXCols == 4
DefaultXComputeCycles == 0
\* <<rows, cols, compute_cycles>>
XSAConfigs == {<<2, 2, 0>>, <<2, 2, 1>>, <<1, 2, 0>>}
XSAVectors == {<<1, 4>>, <<4>>}

\* A weight matrix with the entries w, w + 1, ... in row-major order.
XSAWeightMatrix(r, c, w) ==
    [rows |-> r, cols |-> c, data |-> [i \in 1..(r * c) |-> w + i - 1], null |-> FALSE]

XSACells(a) == (0..(a.mRows - 1)) \X (0..(a.mCols - 1))

\* SystolicArray::SystolicArray.
NewXSA(rows, cols, compute_cycles) ==
    [mRows |-> rows, mCols |-> cols, mComputeCycles |-> compute_cycles,
     mPEs |-> [p \in (0..(rows - 1)) \X (0..(cols - 1)) |->
                  NewXPE(compute_cycles, DefaultDelayCycles)],
     mProcessing |-> FALSE, mCurrentCycle |-> 0, mTotalCyclesNeeded |-> 0,
     mCurrentInput |-> <<>>, mResultMatrix |-> Null,
     mTotalMatrixOps |-> 0,
     out_results |-> <<>>]

\* A weight load without the dimension test (not the code's handler); an
\* entry the matrix does not have reads as 0.
XSAHandleWeightsUnchecked_(a, weights) ==
    [a EXCEPT !.mPEs = [p \in XSACells(a) |->
        XHandleWeight(a.mPEs[p], ReadAt(weights, p[1], p[2], 0))]]

\* A weight load that stops after the first row of PEs (not the code's
\* handler).
XSAHandleWeightsFirstRow_(a, weights) ==
    IF weights.rows # a.mRows \/ weights.cols # a.mCols THEN a
    ELSE [a EXCEPT !.mPEs = [p \in XSACells(a) |->
                IF p[1] = 0
                THEN XHandleWeight(a.mPEs[p], Entry(weights, p[1], p[2]))
                ELSE a.mPEs[p]]]

\* SystolicArray::HandleWeights.
XSAHandleWeights_(a, weights) ==
    IF weights.rows # a.mRows \/ weights.cols # a.mCols THEN a
    ELSE [a EXCEPT !.mPEs = [p \in XSACells(a) |->
                XHandleWeight(a.mPEs[p], Entry(weights, p[1], p[2]))]]

\* mTotalCyclesNeeded of one vector pass.
XSATotalCyclesNeeded(a) ==
    (a.mRows + a.mCols - 1) + a.mComputeCycles + (a.mRows + a.mCols - 2) + a.mRows

\* SystolicArray::HandleVector.
XSAHandleVector_(a, input) ==
    [a EXCEPT !.mCurrentInput = input,
              !.mResultMatrix = Matrix(a.mRows, 1),
              !.mProcessing = TRUE,
              !.mCurrentCycle = 0,
              !.mTotalCyclesNeeded = XSATotalCyclesNeeded(a),
              !.mTotalMatrixOps = @ + 1]

\* SystolicArray::ComputationComplete: the placeholder c + 1 is stored at
\* (c, 0) for every column c < mResultMatrix->cols, which is column 0 only.
XSAComputationComplete(a) ==
    LET m == WriteAt(a.mResultMatrix, 0, 0, 0 + 1)
    IN  [a EXCEPT !.mResultMatrix = m,
                  !.out_results = Append(@, m),
                  !.mProcessing = FALSE]

\* The rows whose activation ProcessOneCycle hands to PE(r, 0) at cycle t.
XSAActRows(a, t) ==
    IF t < a.mRows + a.mCols - 1
    THEN {r \in 0..(a.mRows - 1) :
            /\ t - r >= 0 /\ t - r < a.mCols
            /\ r < Len(a.mCurrentInput)
            /\ t - r = 0}
    ELSE {}

\* The columns whose PE(0, c) ProcessOneCycle hands a zero partial sum at
\* cycle t.
XSAPsumCols(a, t) ==
    IF t < a.mRows + a.mCols + a.mComputeCycles
    THEN {c \in 0..(a.mCols - 1) : c <= t /\ t - c < a.mRows}
    ELSE {}

\* SystolicArray::ProcessOneCycle.
XSAProcessOneCycle(a) ==
    LET t == a.mCurrentCycle
        fed == [p \in XSACells(a) |->
                   IF p[2] = 0 /\ p[1] \in XSAActRows(a, t)
                   THEN XHandleActivation(a.mPEs[p], a.mCurrentInput[p[1] + 1])
                   ELSE a.mPEs[p]]
        seeded == [p \in XSACells(a) |->
                   IF p[1] = 0 /\ p[2] \in XSAPsumCols(a, t)
                   THEN XHandlePartialSum(fed[p], 0)
                   ELSE fed[p]]
        b == [a EXCEPT !.mPEs = seeded]
        c == IF t >= a.mTotalCyclesNeeded THEN XSAComputationComplete(b) ELSE b
    IN  [c EXCEPT !.mCurrentCycle = t + 1]

\* SystolicArray::Tick.
XSATick_(a) == IF a.mProcessing THEN XSAProcessOneCycle(a) ELSE a

\* DelayFifo::Tick of a delay FIFO of depth delay_cycles >= 1 (one outcome).
XSAFifoTicked(f) == CHOOSE g \in FifoTick(f) : TRUE

InitXSA(rows, cols, compute_cycles) ==
    /\ xsa = NewXSA(rows, cols, compute_cycles)
    /\ xsa_hist = [op |-> "init", ops |-> 0,
                   \* vectors accepted, and array ticks of the pass accepted last
                   accepted |-> 0, ticks |-> 0,
                   \* the vector delivered last
                   input |-> <<>>,
                   \* the number of weight matrices delivered with other
                   \* dimensions than the array's
                   mismatched |-> 0,
                   \* the weight matrix delivered last
                   weights |-> Null,
                   \* <<r, c, t>> of every activation and <<c, t>> of every
                   \* zero partial sum the array handed to a PE in that pass
                   acts |-> <<>>, psums |-> <<>>,
                   \* the array ticks each completed pass took
                   done |-> <<>>]

\* ------------------------------------------------------ GemminiSimulation
\* Parameters of the MatrixMultiplier GemminiSimulation builds (defaults).
DefaultSystolicRows == 4
DefaultSystolicCols == 4
\* rows_per_block, cols_per_block and compute_time of runSimulation.
RowsPerBlock == 4
ColsPerBlock == 4
SimComputeTime == 1
\* The extra cycles runSimulation adds.
ExtraCycles == 10

\* Largest number of row blocks / column blocks of a simulated multiplication.
MaxSimBlocks == 2

\* Operands given to runSimulation: one block or MaxSimBlocks blocks per
\* dimension.
SimOperandsA ==
    {Operand(m, k, 1) : m \in {1, (MaxSimBlocks - 1) * RowsPerBlock + 1}, k \in InnerDims}
SimOperandsB ==
    {Operand(k, n, 5) : k \in InnerDims, n \in {1, (MaxSimBlocks - 1) * ColsPerBlock + 1}}

\* expected_cycles of runSimulation.
ExpectedCycles(a, b) ==
    LET row_blocks == (a.rows + RowsPerBlock - 1) \div RowsPerBlock
        col_blocks == (b.cols + ColsPerBlock - 1) \div ColsPerBlock
        cycles_per_block == 1 + RowsPerBlock + ColsPerBlock - 1 + SimComputeTime + 1
    IN  row_blocks * col_blocks * cycles_per_block + ExtraCycles

\* computeTime of RunSimulation in the execute variant.
XSimComputeTime == 0

\* expectedCycles of RunSimulation in the execute variant, for a number of
\* blocks.
XExpectedCycles(blocks) ==
    blocks * (1 + RowsPerBlock + ColsPerBlock - 1 + XSimComputeTime + 1) + ExtraCycles

\* Array ticks from the acceptance of a vector to the emission of its result
\* in the execute array the execute MatrixMultiplier builds: ProcessOneCycle
\* compares mCurrentCycle with mTotalCyclesNeeded before incrementing it.
XSimCyclesPerPass ==
    XSATotalCyclesNeeded(NewXSA(DefaultXRows, DefaultXCols, DefaultXComputeCycles)) + 1

\* Before runSimulation.
NoSim == [cycle |-> 0, read |-> FALSE, busy |-> FALSE, placed |-> 0, result |-> Null]

\* ------------------------------------------------------------------- Init
InitGemmini ==
    /\ InitPE
    /\ sim = NoSim
    /\ \E cfg \in SysConfigs : systolic_rows_ = cfg[1] /\ systolic_cols_ = cfg[2]
    /\ busy_ = FALSE
    /\ current_row_block_ = 0
    /\ current_col_block_ = 0
    /\ total_row_blocks_ = 0
    /\ total_col_blocks_ = 0
    /\ matrix_a_ = Null
    /\ matrix_b_ = Null
    /\ result_matrix_ = Null
    /\ total_mms_ = 0
    /\ total_blocks_ = 0
    /\ out_result = <<>>
    /\ rows_ = DefaultRows
    /\ cols_ = DefaultCols
    /\ compute_time_ = DefaultComputeTime
    /\ processing_ = FALSE
    /\ current_cycle_ = 0
    /\ total_cycles_needed_ = 0
    /\ current_input_ = <<>>
    /\ array_result_ = Null
    /\ total_matrix_ops_ = 0
    /\ pe_weight = [p \in (0..(DefaultRows - 1)) \X (0..(DefaultCols - 1)) |-> 0]
    /\ pe_data = [p \in (0..(DefaultRows - 1)) \X (0..(DefaultCols - 1)) |-> 0]
    /\ inflight = <<>>
    /\ hist = [op |-> "init", calls |-> 0,
               \* the operands of the multiplication accepted last
               a |-> Null, b |-> Null,
               \* blocks issued / block results consumed by that multiplication
               issued |-> <<>>, consumed |-> 0,
               \* the weights sent last, and the operands and block they were built from
               weights |-> Null, wa |-> Null, wb |-> Null, wblk |-> NoBlock,
               \* the last placement: result before, block result, block, operands held
               before |-> Null, results |-> Null, pblk |-> NoBlock,
               pa |-> Null, pb |-> Null,
               \* whether a placement wrote past the result matrix's storage
               ub |-> FALSE,
               \* the operands <<a, b>> of every multiplication that completed,
               \* and whether a placement of it read past a block result's storage
               runs |-> <<>>, past |-> <<>>, rp |-> FALSE]

Init ==
    /\ InitGemmini
    /\ InitFifo(DefaultDepth)
    /\ InitXPE(DefaultComputeCycles, DefaultDelayCycles)
    /\ InitXSA(DefaultXRows, DefaultXCols, DefaultXComputeCycles)

\* ---------------------------------------------------------------- actions
\* MatrixMultiplier::multiply(a, b): handleMatrixA_, handleMatrixB_, then
\* startMultiplication_ (and processNextBlock_ for block (0, 0)).
multiply(a, b) ==
    LET accepted == ~busy_ /\ a.cols = b.rows IN
    /\ hist.calls < MaxCalls
    /\ matrix_a_' = a
    /\ matrix_b_' = b
    /\ IF accepted
       THEN \E g \in Garbage(WeightReadsPastStorage(a, b, 0, 0)) :
            /\ busy_' = TRUE
            /\ current_row_block_' = 0
            /\ current_col_block_' = 0
            /\ total_row_blocks_' = TotalRowBlocks(a)
            /\ total_col_blocks_' = TotalColBlocks(b)
            /\ result_matrix_' = Matrix(a.rows, b.cols)
            /\ inflight' = inflight \o BlockMessages(a, b, 0, 0, g)
            /\ total_blocks_' = total_blocks_ + 1
            /\ total_mms_' = total_mms_ + 1
            /\ hist' = [hist EXCEPT !.op = "multiply", !.calls = @ + 1,
                                    !.a = a, !.b = b,
                                    !.issued = IssuedBy(BlockMessages(a, b, 0, 0, g)),
                                    !.consumed = 0, !.rp = FALSE,
                                    !.weights = BlockMessages(a, b, 0, 0, g)[1].data,
                                    !.wa = a, !.wb = b, !.wblk = <<0, 0>>]
       ELSE /\ UNCHANGED <<busy_, current_row_block_, current_col_block_,
                           total_row_blocks_, total_col_blocks_, result_matrix_,
                           inflight, total_blocks_, total_mms_>>
            /\ hist' = [hist EXCEPT !.op = "multiply_rejected", !.calls = @ + 1]
    /\ UNCHANGED <<systolic_rows_, systolic_cols_, out_result, saVars, peVars, exVars>>

Multiply == \E a \in OperandsA, b \in OperandsB : multiply(a, b)

\* SystolicArray::handleWeights_ on the head of the port queue.
handleWeights_(weights) ==
    /\ IF weights.rows # rows_ \/ weights.cols # cols_
       THEN UNCHANGED pe_weight
       ELSE pe_weight' = [p \in Cells |-> Entry(weights, p[1], p[2])]
    /\ UNCHANGED <<rows_, cols_, compute_time_, processing_, current_cycle_,
                   total_cycles_needed_, current_input_, array_result_,
                   total_matrix_ops_, pe_data>>

DeliverWeights ==
    /\ inflight # <<>>
    /\ Head(inflight).port = "weights"
    /\ handleWeights_(Head(inflight).data)
    /\ inflight' = Tail(inflight)
    /\ hist' = [hist EXCEPT !.op = "weights"]
    /\ UNCHANGED <<mmVars, peVars, exVars>>

\* SystolicArray::handleVector_ on the head of the port queue.
handleVector_(input) ==
    IF processing_ \/ Len(input) # rows_
    THEN UNCHANGED saVars
    ELSE /\ array_result_' = Matrix(rows_, 1)
         /\ pe_data' = [p \in Cells |-> 0]
         /\ current_input_' = input
         /\ processing_' = TRUE
         /\ current_cycle_' = 0
         /\ total_cycles_needed_' = TotalCyclesNeeded
         /\ UNCHANGED <<rows_, cols_, compute_time_, total_matrix_ops_, pe_weight>>

DeliverVector ==
    /\ inflight # <<>>
    /\ Head(inflight).port = "vector"
    /\ handleVector_(Head(inflight).data)
    /\ inflight' = Tail(inflight)
    /\ hist' = [hist EXCEPT !.op =
                    IF processing_ \/ Len(Head(inflight).data) # rows_
                    THEN "vector_dropped" ELSE "vector"]
    /\ UNCHANGED <<mmVars, peVars, exVars>>

\* MatrixMultiplier::handleSystolicResults_ (with processNextBlock_ or
\* multiplierDone_) on the head of the port queue.
handleSystolicResults_(results) ==
    IF ~busy_
    THEN /\ UNCHANGED <<mmVars>>
         /\ inflight' = Tail(inflight)
         /\ hist' = [hist EXCEPT !.op = "results_ignored"]
    ELSE LET rb == current_row_block_
             cb == current_col_block_
             nb == NextBlock(rb, cb, total_row_blocks_, total_col_blocks_)
         IN
         \E g \in Garbage(PlaceReadsPastStorage(results, matrix_a_, matrix_b_, rb, cb)
                           \/ (~nb[3] /\ WeightReadsPastStorage(matrix_a_, matrix_b_, nb[1], nb[2]))) :
         /\ result_matrix_' = PlaceBlock(result_matrix_, results, matrix_a_, matrix_b_, rb, cb, g)
         /\ current_row_block_' = nb[1]
         /\ current_col_block_' = nb[2]
         /\ IF nb[3]
            THEN \* multiplierDone_
                 /\ out_result' = Append(out_result, result_matrix_')
                 /\ busy_' = FALSE
                 /\ inflight' = Tail(inflight)
                 /\ UNCHANGED total_blocks_
            ELSE \* processNextBlock_
                 /\ inflight' = Tail(inflight) \o
                                BlockMessages(matrix_a_, matrix_b_, nb[1], nb[2], g)
                 /\ total_blocks_' = total_blocks_ + 1
                 /\ UNCHANGED <<out_result, busy_>>
         /\ hist' = [hist EXCEPT
                !.op = IF nb[3] THEN "done" ELSE "results",
                !.consumed = @ + 1,
                !.issued = IF nb[3] THEN @
                           ELSE @ \o IssuedBy(BlockMessages(matrix_a_, matrix_b_, nb[1], nb[2], g)),
                !.weights = IF nb[3] THEN @
                            ELSE BlockMessages(matrix_a_, matrix_b_, nb[1], nb[2], g)[1].data,
                !.wa = IF nb[3] THEN @ ELSE matrix_a_,
                !.wb = IF nb[3] THEN @ ELSE matrix_b_,
                !.wblk = IF nb[3] THEN @ ELSE <<nb[1], nb[2]>>,
                !.before = result_matrix_,
                !.results = results,
                !.pblk = <<rb, cb>>,
                !.pa = matrix_a_,
                !.pb = matrix_b_,
                !.ub = @ \/ PlaceWritesPastStorage(result_matrix_, matrix_a_, matrix_b_, rb, cb),
                !.rp = IF nb[3] THEN FALSE
                       ELSE @ \/ PlaceReadsPastStorage(results, matrix_a_, matrix_b_, rb, cb),
                !.runs = IF nb[3] THEN Append(@, <<hist.a, hist.b>>) ELSE @,
                !.past = IF nb[3]
                         THEN Append(@, hist.rp \/ PlaceReadsPastStorage(results, matrix_a_, matrix_b_, rb, cb))
                         ELSE @]
         /\ UNCHANGED <<systolic_rows_, systolic_cols_, total_row_blocks_,
                        total_col_blocks_, matrix_a_, matrix_b_, total_mms_>>

DeliverResults ==
    /\ inflight # <<>>
    /\ Head(inflight).port = "results"
    /\ handleSystolicResults_(Head(inflight).data)
    /\ UNCHANGED <<saVars, peVars, exVars>>

\* SystolicArray::tick_: processOneCycle_, and computationComplete_ when the
\* pass is over.  The clock advances once every message of the cycle is delivered.
tick_ ==
    IF ~processing_
    THEN UNCHANGED <<saVars, inflight, hist>>
    ELSE /\ pe_data' = [p \in Cells |->
                IF Fed(current_cycle_, p[1]) /\ ActiveCol(current_cycle_, p[1]) = p[2]
                THEN current_input_[p[1] + 1] ELSE pe_data[p]]
         /\ current_cycle_' = current_cycle_ + 1
         /\ IF current_cycle_ + 1 >= total_cycles_needed_
            THEN \* computationComplete_
                 /\ array_result_' = CollectedMatrix
                 /\ inflight' = Append(inflight, Msg("results", CollectedMatrix, NoBlock))
                 /\ total_matrix_ops_' = total_matrix_ops_ + 1
                 /\ processing_' = FALSE
                 /\ hist' = [hist EXCEPT !.op = "complete"]
            ELSE /\ UNCHANGED <<array_result_, inflight, total_matrix_ops_, processing_>>
                 /\ hist' = [hist EXCEPT !.op = "tick"]
         /\ UNCHANGED <<rows_, cols_, compute_time_, total_cycles_needed_,
                        current_input_, pe_weight>>

Tick ==
    /\ inflight = <<>>
    /\ tick_
    /\ UNCHANGED <<mmVars, peVars, exVars>>

Next ==
    \/ Multiply
    \/ DeliverWeights
    \/ DeliverVector
    \/ DeliverResults
    \/ Tick

Spec == Init /\ [][Next]_vars

\* -------------------------------------------------------------- PE actions
\* What a call on the PE leaves alone.
PEFrame == UNCHANGED <<mmVars, saVars, inflight, hist, exVars>>

\* PE::SetWeight -> HandleWeight.
HandleWeight(weight) ==
    /\ mWeightReg' = weight
    /\ pe_hist' = [pe_hist EXCEPT !.op = "weight", !.calls = @ + 1,
                                  !.set = weight]
    /\ UNCHANGED <<mActReg, mPartialSumReg, mBusy, mCycleCounter,
                   mWeightLoadingMode, mTotalMacs, outAct, outWtPs>>

SetWeight ==
    /\ pe_hist.calls < MaxPEOps
    /\ \E w \in PEWeights : HandleWeight(w)
    /\ PEFrame

\* An activation handler that also overwrites the weight (not the code's
\* handler).
HandleActivationClobber(act) ==
    /\ mActReg' = act
    /\ mWeightReg' = act
    /\ outAct' = Append(outAct, act)
    /\ pe_hist' = [pe_hist EXCEPT !.op = "act", !.calls = @ + 1,
                                  !.acts = Append(@, act)]
    /\ UNCHANGED <<mPartialSumReg, mBusy, mCycleCounter,
                   mWeightLoadingMode, mTotalMacs, outWtPs>>

\* PE::ReceiveActivation -> HandleActivation.
HandleActivation(act) ==
    /\ mActReg' = act
    /\ outAct' = Append(outAct, act)
    /\ pe_hist' = [pe_hist EXCEPT !.op = "act", !.calls = @ + 1,
                                  !.acts = Append(@, act)]
    /\ UNCHANGED <<mWeightReg, mPartialSumReg, mBusy, mCycleCounter,
                   mWeightLoadingMode, mTotalMacs, outWtPs>>

ReceiveActivation ==
    /\ pe_hist.calls < MaxPEOps
    /\ \E a \in PEActs : HandleActivation(a)
    /\ PEFrame

\* PE::ReceiveWeightPartialSum -> HandleWeightPartialSum.
HandleWeightPartialSum(wtPs) ==
    IF mWeightLoadingMode
    THEN /\ mWeightReg' = LoadedWeight(wtPs)
         /\ outWtPs' = Append(outWtPs, wtPs)
         /\ \E recipient \in BOOLEAN :
                pe_hist' = [pe_hist EXCEPT !.op = "load", !.calls = @ + 1,
                                          !.wtPs = wtPs, !.recipient = recipient]
         /\ UNCHANGED <<mActReg, mPartialSumReg, mBusy, mCycleCounter,
                        mWeightLoadingMode, mTotalMacs, outAct>>
    ELSE \E sum \in MacOutcomes(wtPs, mWeightReg, mActReg) :
         /\ mPartialSumReg' = sum
         /\ outWtPs' = Append(outWtPs, sum)
         /\ mTotalMacs' = mTotalMacs + 1
         /\ pe_hist' = [pe_hist EXCEPT !.op = "mac", !.calls = @ + 1,
                                       !.wtPs = wtPs, !.weight = mWeightReg,
                                       !.act = mActReg]
         /\ UNCHANGED <<mWeightReg, mActReg, mBusy, mCycleCounter,
                        mWeightLoadingMode, outAct>>

ReceiveWeightPartialSum ==
    /\ pe_hist.calls < MaxPEOps
    /\ \E p \in PEPsums : HandleWeightPartialSum(p)
    /\ PEFrame

\* A weight-valid handler that also starts a computation (not the code's
\* handler).
HandleWeightValidBusy(valid) ==
    /\ mWeightLoadingMode' = (valid = 1)
    /\ mBusy' = TRUE
    /\ mCycleCounter' = 1
    /\ pe_hist' = [pe_hist EXCEPT !.op = "valid", !.calls = @ + 1]
    /\ UNCHANGED <<mWeightReg, mActReg, mPartialSumReg,
                   mTotalMacs, outAct, outWtPs>>

\* PE::SetWeightValidSignal -> HandleWeightValid.
HandleWeightValid(valid) ==
    /\ mWeightLoadingMode' = (valid = 1)
    /\ pe_hist' = [pe_hist EXCEPT !.op = "valid", !.calls = @ + 1]
    /\ UNCHANGED <<mWeightReg, mActReg, mPartialSumReg, mBusy, mCycleCounter,
                   mTotalMacs, outAct, outWtPs>>

SetWeightValidSignal ==
    /\ pe_hist.calls < MaxPEOps
    /\ \E v \in PEValids : HandleWeightValid(v)
    /\ PEFrame

\* PE::Tick (nothing in the PE sets mBusy: ProcessData is never called).
PETick ==
    /\ IF mBusy
       THEN /\ mCycleCounter' = IF mCycleCounter > 0 THEN mCycleCounter - 1 ELSE 0
            /\ mBusy' = ~(mCycleCounter' = 0)
       ELSE UNCHANGED <<mBusy, mCycleCounter>>
    /\ UNCHANGED <<mWeightReg, mActReg, mPartialSumReg, mWeightLoadingMode,
                   mTotalMacs, outAct, outWtPs, pe_hist>>
    /\ PEFrame

NextPE ==
    \/ SetWeight
    \/ ReceiveActivation
    \/ ReceiveWeightPartialSum
    \/ SetWeightValidSignal
    \/ PETick

SpecPE == Init /\ [][NextPE]_vars

\* ------------------------------------------------------ DelayFifo actions
\* A value is pushed (Push, or the in port's handler) in the current cycle.
FifoPush ==
    /\ Len(fifo_hist.pushed) < MaxPushes
    /\ fifo_hist.cycle <= MaxPushCycle
    /\ \E v \in FifoVals :
         /\ fifo' = FifoHandleInput(fifo, v)
         /\ fifo_hist' = [fifo_hist EXCEPT !.op = "push",
                              !.pushed = Append(@, <<v, fifo_hist.cycle>>)]
    /\ UNCHANGED <<gmVars, simVars, xpeVars, xsaVars>>

\* The tick event of the current cycle.
FifoTickEvent ==
    /\ ~fifo_hist.ticked
    /\ \E f \in FifoTick(fifo) :
         /\ fifo' = f
         /\ fifo_hist' = [fifo_hist EXCEPT
                !.op = IF Len(f.out) > Len(fifo.out) THEN "emit" ELSE "tick",
                !.ticked = TRUE,
                !.emitted = IF Len(f.out) > Len(fifo.out)
                            THEN Append(@, <<f.out[Len(f.out)], fifo_hist.cycle>>)
                            ELSE @]
    /\ UNCHANGED <<gmVars, simVars, xpeVars, xsaVars>>

\* The scheduler advances to the next cycle (the tick reschedules itself).
FifoNextCycle ==
    /\ fifo_hist.ticked
    /\ fifo_hist' = [fifo_hist EXCEPT !.op = "cycle", !.ticked = FALSE,
                         !.cycle = IF @ < LastCycle THEN @ + 1 ELSE @]
    /\ UNCHANGED <<fifo, gmVars, simVars, xpeVars, xsaVars>>

NextFifo ==
    \/ FifoPush
    \/ FifoTickEvent
    \/ FifoNextCycle

InitFifoSpec ==
    /\ InitGemmini
    /\ \E d \in FifoDepths : InitFifo(d)
    /\ InitXPE(DefaultComputeCycles, DefaultDelayCycles)
    /\ InitXSA(DefaultXRows, DefaultXCols, DefaultXComputeCycles)

SpecFifo == InitFifoSpec /\ [][NextFifo]_vars

\* ----------------------------------------------------- PE (execute) actions
\* The PE after a handler, with the history of what the handler did: whether it
\* started a MAC, and what it handed to the partial-sum delay FIFO.
XPEStep(op, y, isInput) ==
    LET started == y.mTotalMacs > xpe.mTotalMacs
        pushed == Len(y.mPsumDelayFifo.mFifo) > Len(xpe.mPsumDelayFifo.mFifo)
        expected == IF started
                    THEN y.mInput.psum + y.mWeightReg * y.mInput.act
                    ELSE xpe_hist.expected
        ticks == IF started THEN 0
                 ELSE IF op = "tick" /\ xpe.mBusy THEN xpe_hist.ticks + 1
                 ELSE xpe_hist.ticks
    IN  /\ xpe' = y
        /\ xpe_hist' = [xpe_hist EXCEPT
              !.op = op,
              !.ops = IF isInput THEN @ + 1 ELSE @,
              !.expected = expected,
              !.ticks = ticks,
              !.forwarded =
                  IF pushed
                  THEN Append(@, [value |-> y.mPsumDelayFifo.mFifo[Len(y.mPsumDelayFifo.mFifo)],
                                  expected |-> expected, ticks |-> ticks,
                                  n |-> xpe.mComputeCycles])
                  ELSE @]
        /\ UNCHANGED <<gmVars, simVars, fifoVars, xsaVars>>

\* PE::SetWeight.
XPESetWeight ==
    /\ xpe_hist.ops < MaxXOps
    /\ \E w \in XWeights : XPEStep("weight", XHandleWeight(xpe, w), TRUE)

\* PE::ReceiveActivation.
XPEReceiveActivation ==
    /\ xpe_hist.ops < MaxXOps
    /\ \E a \in XActs : XPEStep("act", XHandleActivation(xpe, a), TRUE)

\* PE::ReceivePartialSum.
XPEReceivePartialSum ==
    /\ xpe_hist.ops < MaxXOps
    /\ \E ps \in XPsums : XPEStep("psum", XHandlePartialSum(xpe, ps), TRUE)

\* PE::Tick.
XPETick ==
    \E y \in {XTick(xpe)} : XPEStep("tick", y, FALSE)

\* DelayFifo::Tick of the PE's two delay FIFOs.
XPEFifoTick ==
    \E fa \in FifoTick(xpe.mActDelayFifo), fp \in FifoTick(xpe.mPsumDelayFifo) :
        XPEStep("fifo", [xpe EXCEPT !.mActDelayFifo = fa, !.mPsumDelayFifo = fp],
                FALSE)

NextXPE ==
    \/ XPESetWeight
    \/ XPEReceiveActivation
    \/ XPEReceivePartialSum
    \/ XPETick
    \/ XPEFifoTick

InitXPESpec ==
    /\ InitGemmini
    /\ InitFifo(DefaultDepth)
    /\ \E n \in ComputeCycles, d \in DelayCycles : InitXPE(n, d)
    /\ InitXSA(DefaultXRows, DefaultXCols, DefaultXComputeCycles)

SpecXPE == InitXPESpec /\ [][NextXPE]_vars

\* The tick events of the PE and of its delay FIFOs fire in every cycle.
FairSpecXPE == SpecXPE /\ WF_vars(XPETick) /\ WF_vars(XPEFifoTick)

\* ------------------------------------------ SystolicArray (execute) actions
\* Sequence of the elements of a set of pairs or triples, in some order.
RECURSIVE SeqOf(_)
SeqOf(S) == IF S = {} THEN <<>>
            ELSE LET e == CHOOSE x \in S : TRUE IN <<e>> \o SeqOf(S \ {e})

\* in_weights: SystolicArray::HandleWeights.
XSAHandleWeights ==
    /\ xsa_hist.ops < MaxXSAOps
    /\ \E w \in {XSAWeightMatrix(xsa.mRows, xsa.mCols, 2), XSAWeightMatrix(1, 1, 3)} :
         /\ xsa' = XSAHandleWeights_(xsa, w)
         /\ xsa_hist' = [xsa_hist EXCEPT !.op = "weights", !.ops = @ + 1,
                !.weights = w,
                !.mismatched = IF <<w.rows, w.cols>> # <<xsa.mRows, xsa.mCols>>
                               THEN @ + 1 ELSE @]
    /\ UNCHANGED <<gmVars, simVars, fifoVars, xpeVars>>

\* in_vector: SystolicArray::HandleVector.
XSAHandleVector ==
    /\ xsa_hist.ops < MaxXSAOps
    /\ xsa_hist.accepted < MaxVectors
    /\ \E v \in XSAVectors :
         /\ xsa' = XSAHandleVector_(xsa, v)
         /\ xsa_hist' = [xsa_hist EXCEPT !.op = "vector", !.ops = @ + 1,
                             !.accepted = @ + 1, !.ticks = 0, !.input = v,
                             !.acts = <<>>, !.psums = <<>>]
    /\ UNCHANGED <<gmVars, simVars, fifoVars, xpeVars>>

\* SystolicArray::Tick.
XSATick ==
    /\ xsa' = XSATick_(xsa)
    /\ xsa_hist' =
         IF ~xsa.mProcessing THEN [xsa_hist EXCEPT !.op = "idle"]
         ELSE LET t == xsa.mCurrentCycle
                  completed == Len(xsa'.out_results) > Len(xsa.out_results)
              IN  [xsa_hist EXCEPT
                     !.op = IF completed THEN "complete" ELSE "tick",
                     !.ticks = @ + 1,
                     !.acts = @ \o SeqOf({<<r, 0, t>> : r \in XSAActRows(xsa, t)}),
                     !.psums = @ \o SeqOf({<<c, t>> : c \in XSAPsumCols(xsa, t)}),
                     !.done = IF completed THEN Append(@, xsa_hist.ticks + 1) ELSE @]
    /\ UNCHANGED <<gmVars, simVars, fifoVars, xpeVars>>

\* PE::Tick of every PE of the array.
XSAPETick ==
    /\ xsa' = [xsa EXCEPT !.mPEs = [p \in XSACells(xsa) |-> XTick(xsa.mPEs[p])]]
    /\ xsa_hist' = [xsa_hist EXCEPT !.op = "pe_tick"]
    /\ UNCHANGED <<gmVars, simVars, fifoVars, xpeVars>>

\* DelayFifo::Tick of every delay FIFO of the array's PEs.
XSAFifoTick ==
    /\ xsa' = [xsa EXCEPT !.mPEs = [p \in XSACells(xsa) |->
                  [xsa.mPEs[p] EXCEPT
                      !.mActDelayFifo = XSAFifoTicked(@),
                      !.mPsumDelayFifo = XSAFifoTicked(@)]]]
    /\ xsa_hist' = [xsa_hist EXCEPT !.op = "fifo_tick"]
    /\ UNCHANGED <<gmVars, simVars, fifoVars, xpeVars>>

NextXSA ==
    \/ XSAHandleWeights
    \/ XSAHandleVector
    \/ XSATick
    \/ XSAPETick
    \/ XSAFifoTick

InitXSASpec ==
    /\ InitGemmini
    /\ InitFifo(DefaultDepth)
    /\ InitXPE(DefaultComputeCycles, DefaultDelayCycles)
    /\ \E cfg \in XSAConfigs : InitXSA(cfg[1], cfg[2], cfg[3])

SpecXSA == InitXSASpec /\ [][NextXSA]_vars

\* The tick event fires in every cycle.
FairSpecFifo ==
    /\ SpecFifo
    /\ WF_vars(FifoTickEvent)
    /\ WF_vars(FifoNextCycle)

\* Every message that was sent is eventually handled, and the array's clock
\* keeps ticking while a computation is in progress (Sparta runs every
\* scheduled event; tick_ reschedules itself each cycle).
FairSpec ==
    /\ Spec
    /\ WF_vars(DeliverWeights)
    /\ WF_vars(DeliverVector)
    /\ WF_vars(DeliverResults)
    /\ WF_vars(Tick)

\* ------------------------------------------------ GemminiSimulation actions
\* runSimulation: the call of multiply().
SimMultiply ==
    /\ hist.calls = 0
    /\ \E a \in SimOperandsA, b \in SimOperandsB :
         /\ a.cols = b.rows
         /\ multiply(a, b)

\* runRaw(expected_cycles): one scheduler cycle; the array's tick_ runs in
\* every cycle.
SimCycle ==
    /\ hist.calls = 1
    /\ inflight = <<>>
    /\ sim.cycle < ExpectedCycles(hist.a, hist.b)
    /\ tick_
    /\ sim' = [sim EXCEPT !.cycle = @ + 1]
    /\ UNCHANGED <<mmVars, peVars, fifoVars, xpeVars, xsaVars>>

\* runSimulation: getResult() after the run.
SimRead ==
    /\ hist.calls = 1
    /\ inflight = <<>>
    /\ sim.cycle = ExpectedCycles(hist.a, hist.b)
    /\ ~sim.read
    /\ sim' = [sim EXCEPT !.read = TRUE, !.busy = busy_,
                          !.placed = hist.consumed, !.result = getResult]
    /\ UNCHANGED <<gmVars, fifoVars, xpeVars, xsaVars>>

NextSim ==
    \/ SimMultiply
    \/ DeliverWeights
    \/ DeliverVector
    \/ DeliverResults
    \/ SimCycle
    \/ SimRead

\* GemminiSimulation builds its MatrixMultiplier from a default parameter set.
InitSim ==
    /\ Init
    /\ systolic_rows_ = DefaultSystolicRows
    /\ systolic_cols_ = DefaultSystolicCols

SpecSim == InitSim /\ [][NextSim]_vars

\* ------------------------------------------------------------ properties
\* The standard matrix product, entry (i, j) = sum over k of A[i][k] * B[k][j].
RECURSIVE DotProduct(_, _, _, _, _)
DotProduct(a, b, i, j, k) ==
    IF k = 0 THEN 0
    ELSE DotProduct(a, b, i, j, k - 1) + Entry(a, i, k - 1) * Entry(b, k - 1, j)

RefProduct(a, b) ==
    [rows |-> a.rows, cols |-> b.cols, null |-> FALSE,
     data |-> [i \in 1..(a.rows * b.cols) |->
                 DotProduct(a, b, (i - 1) \div b.cols, (i - 1) % b.cols, a.cols)]]

\* The operands the multiplier holds are those of the accepted multiplication.
OperandsKept == matrix_a_ = hist.a /\ matrix_b_ = hist.b

\* C1: the result emitted for an accepted multiply(A, B) is the standard
\* matrix product of A and B.
C1_ResultIsProduct ==
    (hist.op = "done" /\ OperandsKept)
        => out_result[Len(out_result)] = RefProduct(hist.a, hist.b)

\* C2: a multiply call made while a multiplication is in progress changes
\* nothing of that multiplication: the operands its remaining blocks are built
\* from, its block counters, its result matrix, and what has been emitted.
C2_BusyCallRejected ==
    [][(busy_ /\ hist'.op = "multiply_rejected")
        => UNCHANGED <<matrix_a_, matrix_b_, current_row_block_,
                       current_col_block_, total_row_blocks_, total_col_blocks_,
                       result_matrix_, out_result, inflight>>]_vars

\* C3: every accepted multiplication eventually completes and clears busy.
C3_AcceptedCompletes == busy_ ~> ~busy_

\* C4: at most one block is in flight: the number of blocks issued minus the
\* number of block results consumed is 0 or 1 at every moment.
C4_AtMostOneBlockInFlight ==
    Len(hist.issued) - hist.consumed \in {0, 1}

\* A second block has been issued after the first block's result was consumed.
C4_Witness ==
    hist.op = "results" /\ Len(hist.issued) = 2 /\ hist.consumed = 1

\* Ceiling of x / d.
CeilDiv(x, d) == IF x % d = 0 THEN x \div d ELSE x \div d + 1

\* The k-th block (k = 1, 2, ...) in row-major order with tcb column blocks.
RowMajor(k, tcb) == <<(k - 1) \div tcb, (k - 1) % tcb>>

PlacementInBounds ==
    hist.op \in {"results", "done"} =>
        \A p \in CopyPairs(hist.pa, hist.pb, hist.pblk[1], hist.pblk[2]) :
            /\ RowOffset(hist.pblk[1]) + p[1] < hist.before.rows
            /\ ColOffset(hist.pblk[2]) + p[2] < hist.before.cols

\* C6: during a multiplication the result matrix has the dimensions
\* rows(A) x cols(B) of the operands currently held, and every write of a
\* block placement targets an index inside the result matrix.
C6_ResultShape ==
    /\ busy_ => /\ result_matrix_.rows = matrix_a_.rows
                /\ result_matrix_.cols = matrix_b_.cols
    /\ PlacementInBounds

\* Matrix m has an entry in row r, column c.
HasEntry(m, r, c) == r >= 0 /\ r < m.rows /\ c >= 0 /\ c < m.cols

\* C7: handling the result of block (i, j) sets result[row_offset + r]
\* [col_offset + c], for r < block_rows and c < block_cols, to entry (r, c) of
\* the block's output, and leaves every other entry of the result unchanged.
C7_PlacementExact ==
    hist.op \in {"results", "done"} =>
        LET ro == RowOffset(hist.pblk[1])
            co == ColOffset(hist.pblk[2])
            br == BlockRows(hist.pa, hist.pblk[1])
            bc == BlockCols(hist.pb, hist.pblk[2])
        IN  \A i \in 0..(hist.before.rows - 1), j \in 0..(hist.before.cols - 1) :
              IF i - ro \in 0..(br - 1) /\ j - co \in 0..(bc - 1)
              THEN /\ HasEntry(hist.results, i - ro, j - co)
                   /\ Entry(result_matrix_, i, j) = Entry(hist.results, i - ro, j - co)
              ELSE Entry(result_matrix_, i, j) = Entry(hist.before, i, j)

\* C8: the weights sent for a block are the transposed column slice of B:
\* weights[j][k] = B[k][col_offset + j] for every valid column j of the block
\* and every k below the inner dimension, and 0 in the padding.
C8_WeightsTransposed ==
    ~hist.weights.null =>
        LET co == ColOffset(hist.wblk[2])
            bc == BlockCols(hist.wb, hist.wblk[2])
            K  == hist.wb.rows
        IN  /\ \A j \in 0..(bc - 1), k \in 0..(K - 1) :
                 /\ HasEntry(hist.weights, j, k)
                 /\ Entry(hist.weights, j, k) = Entry(hist.wb, k, co + j)
            /\ \A r \in 0..(hist.weights.rows - 1), c \in 0..(hist.weights.cols - 1) :
                 ~(r < bc /\ c < K) => Entry(hist.weights, r, c) = 0

\* Sum over the first n columns c of weight[r][c] * input[c].
RECURSIVE RowDot(_, _)
RowDot(r, n) ==
    IF n = 0 THEN 0
    ELSE RowDot(r, n - 1) + pe_weight[<<r, n - 1>>] * current_input_[n]

\* C9: the result the array emits for a vector is the rows x 1 matrix whose
\* entry r is the sum over c of W[r][c] * v[c] for the weights W loaded last.
C9_MatrixVectorProduct ==
    hist.op = "complete" =>
        /\ array_result_.rows = rows_
        /\ array_result_.cols = 1
        /\ \A r \in 0..(rows_ - 1) : Entry(array_result_, r, 0) = RowDot(r, cols_)

C13_FifoOrder ==
    fifo.mDepth >= 1 =>
        /\ fifo.out # <<>> => Len(fifo_hist.pushed) >= fifo.mDepth
        /\ Len(fifo.out) <= Len(fifo_hist.pushed)
        /\ \A i \in 1..Len(fifo.out) : fifo.out[i] = fifo_hist.pushed[i][1]

\* A FIFO of depth 2 has emitted two different values, a third being pushed.
C13_Witness ==
    /\ fifo.mDepth = 2
    /\ fifo.out = <<7, 8>>
    /\ Len(fifo_hist.pushed) = 3

\* C14: with one push per cycle, a value pushed into a DelayFifo of depth
\* D >= 1 at cycle t is emitted at cycle t + D, whether the push or the tick of
\* a cycle is processed first.
C14_ExactDelay ==
    LET P == fifo_hist.pushed
        E == fifo_hist.emitted
    IN  (/\ fifo.mDepth >= 1
         /\ \A i \in 1..Len(P) : P[i][2] = P[1][2] + (i - 1))
        => \A k \in 1..Len(E) : E[k][2] = P[k][2] + fifo.mDepth

\* C15: every value pushed into a DelayFifo is eventually emitted: once the
\* pushes have stopped and the FIFO keeps ticking, as many values have been
\* emitted as were pushed (stated for the depths D >= 1, where no tick is
\* undefined).
C15_AllEmitted ==
    fifo.mDepth >= 1 => <>[](Len(fifo.out) = Len(fifo_hist.pushed))

\* C16: a tick of an empty DelayFifo emits nothing and is not an error, for
\* every depth, depth 0 included.
C16_EmptyTick ==
    [][(fifo_hist'.op \in {"tick", "emit"} /\ fifo.mFifo = <<>>)
        => (fifo'.out = fifo.out /\ ~fifo'.ub)]_vars

\* C11: with compute_cycles = n > 0, every result the PE forwards south was
\* forwarded on the n-th tick after its MAC started, and equals
\* incoming_partial_sum + weight * activation of the pair that started the
\* MAC, whatever arrived while the PE was busy.
C11_BusyMacResult ==
    \A i \in 1..Len(xpe_hist.forwarded) :
        LET f == xpe_hist.forwarded[i]
        IN  f.n > 0 => (f.ticks = f.n /\ f.value = f.expected)

\* C12: an activation / partial-sum pair stored while the PE was busy is
\* eventually MAC'd (its valid flags are consumed) without further input.
C12_PairNotLost ==
    (xpe.mInput.act_valid /\ xpe.mInput.psum_valid)
        ~> (~xpe.mInput.act_valid /\ ~xpe.mInput.psum_valid)

\* C18: during a vector pass the array delivers activations only to the
\* west-edge PEs: a tick of the array leaves the data of every PE of a column
\* c > 0 as it was.
C18_WestEdgeOnly ==
    [][(processing_ /\ hist'.op \in {"tick", "complete"})
        => \A p \in Cells : p[2] > 0 => pe_data'[p] = pe_data[p]]_vars

\* C17: one vector pass takes exactly rows + cols - 1 + compute_time cycles:
\* total_cycles_needed has that value while a pass is processed, and every
\* completed pass emitted its result on the tick at which that many cycles
\* had elapsed since the vector was accepted.
C17_PassLength ==
    LET T == xsa.mRows + xsa.mCols - 1 + xsa.mComputeCycles
    IN  /\ xsa.mProcessing => xsa.mTotalCyclesNeeded = T
        /\ \A i \in 1..Len(xsa_hist.done) : xsa_hist.done[i] = T

\* C19: in a vector pass column c receives its zero partial sum at PE(0, c)
\* exactly at cycle t == c, and once.
C19_SeedDiagonal ==
    LET S == xsa_hist.psums
    IN  /\ \A i \in 1..Len(S) : S[i][2] = S[i][1]
        /\ \A i, j \in 1..Len(S) : i # j => S[i][1] # S[j][1]

\* C20: every accepted vector pass ends in exactly one completion: when the
\* array is not processing, it has emitted one result per accepted vector and
\* the matrix-op counter counts the results emitted; while it processes, the
\* pass under way is the only one not completed.
C20_OneCompletionPerPass ==
    /\ xsa_hist.accepted =
           Len(xsa.out_results) + (IF xsa.mProcessing THEN 1 ELSE 0)
    /\ ~xsa.mProcessing => xsa.mTotalMatrixOps = Len(xsa.out_results)

\* C21: a vector delivered to the array while a vector pass is in flight is
\* ignored: the array, its latched input and its PEs are as they were.
C21_BusyVectorIgnored ==
    [][(xsa.mProcessing /\ xsa_hist'.op = "vector") => xsa' = xsa]_vars

\* C22: a vector whose length differs from the array's row count, delivered
\* to an idle array, is a no-op: the array does not start processing and its
\* state is unchanged.
C22_WrongLengthIgnored ==
    [][(/\ ~xsa.mProcessing
        /\ xsa_hist'.op = "vector"
        /\ Len(xsa_hist'.input) # xsa.mRows) => xsa' = xsa]_vars

\* C24: a multiply(a, b) call on an idle multiplier with a.cols # b.rows is a
\* no-op: no block is issued, busy stays false and the multiplier's state
\* (operands, result matrix, block counters, statistics) is as before.
C24_MismatchIsNoOp ==
    [][(~busy_ /\ hist'.op = "multiply_rejected")
        => (mmVars' = mmVars /\ inflight' = inflight)]_vars

\* C23: a weight matrix whose dimensions differ from rows x cols changes no
\* PE weight and no array state; as this holds in every state, a repeated
\* call is rejected again with the same effect, and a following vector pass
\* runs with the weights loaded before.
C23_BadWeightsRejected ==
    [][(xsa_hist'.op = "weights" /\ xsa_hist'.mismatched > xsa_hist.mismatched)
        => xsa' = xsa]_vars

\* After a mismatched weight matrix was delivered, a vector pass has completed
\* in which PE(0,0) computed its MAC with the weight 2 loaded before.
C23_Witness ==
    /\ xsa_hist.mismatched >= 1
    /\ xsa.out_results # <<>>
    /\ xsa.mPEs[<<0, 0>>].mWeightReg = 2
    /\ xsa.mPEs[<<0, 0>>].mTotalMacs >= 1
    /\ xsa.mPEs[<<0, 0>>].mPartialSumReg = 2 * xsa.mCurrentInput[1]

\* C23 for the gemmini variant: a weight matrix of other dimensions than the
\* array's, delivered on in_weights, changes no array state.
C23_GemminiBadWeightsRejected ==
    [][(/\ inflight # <<>>
        /\ Head(inflight).port = "weights"
        /\ inflight' = Tail(inflight)
        /\ (Head(inflight).data.rows # rows_ \/ Head(inflight).data.cols # cols_))
        => saVars' = saVars]_vars

\* C25: the channel between two PEs is registered: a value handed to the
\* delay FIFO of depth D >= 1 in cycle N leaves it for the neighbour in a later
\* cycle, never in cycle N, whatever the order of the push and the tick
\* within a cycle.
C25_RegisteredChannel ==
    LET P == fifo_hist.pushed
        E == fifo_hist.emitted
    IN  fifo.mDepth >= 1 => \A k \in 1..Len(E) : E[k][2] > P[k][2]

\* C26: in weight-loading mode a value received from the north is forwarded
\* south unchanged and no MAC is performed or counted, and a PE that is not
\* the designated recipient of the value keeps its previous weight.
C26_LoadOnlyIfRecipient ==
    [][(pe_hist'.calls = pe_hist.calls + 1 /\ pe_hist'.op = "load") =>
          /\ outWtPs' = Append(outWtPs, pe_hist'.wtPs)
          /\ mTotalMacs' = mTotalMacs
          /\ mPartialSumReg' = mPartialSumReg
          /\ ~pe_hist'.recipient => mWeightReg' = mWeightReg]_vars

\* C27: the result of a compute-mode MAC is incoming partial sum + stored
\* weight * registered activation and nothing else: it does not depend on the
\* result of an earlier MAC, and the weight it uses is the one stored last.
C27_MacUsesCurrentOperands ==
    [][(pe_hist'.calls = pe_hist.calls + 1 /\ pe_hist'.op = "mac"
        /\ ~Overflows(pe_hist'.wtPs, mWeightReg * mActReg))
        => /\ mPartialSumReg' = pe_hist'.wtPs + mWeightReg * mActReg
           /\ mWeightReg' = mWeightReg
           /\ mActReg' = mActReg]_vars

\* A second MAC, made after the weight was changed from 0 to 5: activation 4,
\* partial sums 10 and 10 give 10 and then 30.
C27_Witness ==
    /\ pe_hist.op = "mac"
    /\ mTotalMacs = 2
    /\ mWeightReg = 5 /\ mActReg = 4
    /\ outWtPs = <<10, 30>>
    /\ mPartialSumReg = 30

\* C27 for the execute variant: the MAC a handler starts leaves
\* incoming partial sum + weight * activation in the result register.
C27_ExecuteMac ==
    [][xpe'.mTotalMacs > xpe.mTotalMacs
        => xpe'.mPartialSumReg =
               xpe'.mInput.psum + xpe'.mWeightReg * xpe'.mInput.act]_vars

\* C28: the stored weight is stationary: a call of set_weight stores its
\* argument whatever the mode, and apart from that the weight changes only
\* when a value arrives from the north in weight-loading mode; activations,
\* compute-mode partial sums, mode changes and ticks leave it alone.
C28_WeightStationary ==
    [][/\ (pe_hist'.calls = pe_hist.calls + 1 /\ pe_hist'.op = "weight")
            => mWeightReg' = pe_hist'.set
       /\ mWeightReg' # mWeightReg
            => /\ pe_hist'.calls = pe_hist.calls + 1
               /\ \/ pe_hist'.op = "weight"
                  \/ pe_hist'.op = "load" /\ mWeightLoadingMode]_vars

\* set_weight(5) was called in weight-loading mode and stored 5, and an
\* activation received since has left it there.
C28_Witness ==
    /\ mWeightLoadingMode
    /\ pe_hist.set = 5 /\ mWeightReg = 5
    /\ pe_hist.op = "act" /\ mActReg = 4

\* C28 for the execute variant: only set_weight changes the stored weight.
C28_ExecuteWeightStationary ==
    [][xpe'.mWeightReg # xpe.mWeightReg => xpe_hist'.op = "weight"]_vars

\* C29: every activation the PE receives is registered and forwarded east
\* exactly once and unchanged, whether or not the PE is busy: what has left
\* the activation delay FIFO is always a prefix of what was received, and in
\* the end nothing received is still waiting in it.
C29_ActivationForwarded ==
    /\ [](xpe_hist.op = "act" =>
            LET f == xpe.mActDelayFifo.mFifo
            IN  f # <<>> /\ f[Len(f)] = xpe.mInput.act)
    /\ <>[](xpe.mActDelayFifo.mFifo = <<>>)

\* C29 for the gemmini variant: an activation step registers the value and
\* sends it east at once, in either mode; what was sent east is what was
\* received.
C29_GemminiActivationForwarded ==
    /\ outAct = pe_hist.acts
    /\ pe_hist.op = "act" => mActReg = outAct[Len(outAct)]

\* The bindings of a rows x cols grid: every activation output to the PE on
\* the right, every partial-sum output to the PE below.
GridBindings(rows, cols) ==
    {<<"act", <<r, c>>, <<r, c + 1>>>> : r \in 0..(rows - 1), c \in 0..(cols - 2)}
    \cup {<<"psum", <<r, c>>, <<r + 1, c>>>> : r \in 0..(rows - 2), c \in 0..(cols - 1)}

\* C30: after construction of the array PE(r,c)'s activation output is bound
\* to PE(r,c+1) for every c < cols - 1, PE(r,c)'s partial-sum output is bound
\* to PE(r+1,c) for every r < rows - 1, and there is no other binding.
C30_GridBound ==
    ArrayBindings(rows_, cols_) = GridBindings(rows_, cols_)

\* C31: a weight load is atomic with respect to computation: after a
\* successful load of W every PE(r, c) holds W[r][c], and the load changes
\* nothing else of any PE: no PE performs a MAC, becomes busy or changes mode
\* between the first and the last weight write.
C31_LoadWeightsAtomic ==
    [][(/\ xsa_hist'.op = "weights"
        /\ xsa_hist'.mismatched = xsa_hist.mismatched)
        => \A p \in XSACells(xsa) :
             /\ xsa'.mPEs[p].mWeightReg = Entry(xsa_hist'.weights, p[1], p[2])
             /\ xsa'.mPEs[p].mTotalMacs = xsa.mPEs[p].mTotalMacs
             /\ [xsa'.mPEs[p] EXCEPT !.mWeightReg = 0]
                    = [xsa.mPEs[p] EXCEPT !.mWeightReg = 0]]_vars

\* Weights 2, 3 / 4, 5 were loaded into a 2 x 2 array during a pass in which
\* PE(0,0) had already performed a MAC.
C31_Witness ==
    /\ xsa_hist.op = "weights"
    /\ xsa_hist.mismatched = 0
    /\ xsa.mProcessing
    /\ xsa.mRows = 2 /\ xsa.mCols = 2
    /\ xsa.mPEs[<<0, 0>>].mTotalMacs >= 1
    /\ xsa.mPEs[<<0, 0>>].mWeightReg = 2
    /\ xsa.mPEs[<<0, 1>>].mWeightReg = 3
    /\ xsa.mPEs[<<1, 0>>].mWeightReg = 4
    /\ xsa.mPEs[<<1, 1>>].mWeightReg = 5

\* C31 for the gemmini array: a successful load sets every PE's weight to
\* W[r][c] and leaves the data the PEs hold and the pass in progress alone.
C31_GemminiLoadAtomic ==
    [][(/\ inflight # <<>>
        /\ Head(inflight).port = "weights"
        /\ inflight' = Tail(inflight)
        /\ Head(inflight).data.rows = rows_
        /\ Head(inflight).data.cols = cols_)
        => /\ \A p \in Cells : pe_weight'[p] = Entry(Head(inflight).data, p[1], p[2])
           /\ UNCHANGED <<pe_data, processing_, current_cycle_, current_input_>>]_vars

\* The states the PE's flags put it in.
PEStates ==
    (IF ~mWeightLoadingMode /\ ~mBusy THEN {"idle"} ELSE {})
    \cup (IF mWeightLoadingMode THEN {"weight-loading"} ELSE {})
    \cup (IF mBusy /\ mCycleCounter > 0 THEN {"computing"} ELSE {})
    \cup (IF mBusy /\ mCycleCounter = 0 THEN {"drain-delay"} ELSE {})

\* C32: at every cycle the PE is in exactly one of the states idle,
\* weight-loading, computing, drain-delay; weight_loading_mode and busy are
\* never true at the same time.
C32_OneStateAtATime ==
    /\ Cardinality(PEStates) = 1
    /\ ~(mWeightLoadingMode /\ mBusy)

\* The PE is in weight-loading mode and has taken a weight from the north,
\* after it had performed a MAC in compute mode.
C32_Witness ==
    /\ PEStates = {"weight-loading"}
    /\ pe_hist.op = "load"
    /\ mTotalMacs >= 1

\* C33: accumulator overflow is not trapped: when the incoming partial sum
\* plus weight * activation leaves the range of int32_t, the partial sum the
\* PE registers and forwards south is the two's-complement wrapped value.
C33_OverflowWraps ==
    [][(/\ pe_hist'.op = "mac"
        /\ Overflows(pe_hist'.wtPs, mWeightReg * mActReg))
        => /\ mPartialSumReg' = Wrap32(pe_hist'.wtPs, mWeightReg * mActReg)
           /\ outWtPs' = Append(outWtPs, mPartialSumReg')]_vars

\* C34: running multiply(A, B) to completion and then multiply(A, B) again
\* yields an identical result.
C34_RepeatIdentical ==
    \A i, j \in 1..Len(hist.runs) :
        (Len(out_result) = Len(hist.runs) /\ hist.runs[i] = hist.runs[j])
            => out_result[i] = out_result[j]

\* C34 for the multiplications whose placements read only inside the block
\* results: repeating one yields an identical result.
C34_RepeatIdenticalInBounds ==
    \A i, j \in 1..Len(hist.runs) :
        (/\ Len(out_result) = Len(hist.runs)
         /\ hist.runs[i] = hist.runs[j]
         /\ ~hist.past[i] /\ ~hist.past[j])
            => out_result[i] = out_result[j]

\* C35: until a multiplication completes none of its effects is visible from
\* outside: while it is in progress with some block already placed, what
\* getResult() returns is not its partially assembled matrix but what was
\* visible before it started (nothing, or the result emitted last).
C35_NoPartialResultVisible ==
    (busy_ /\ hist.consumed >= 1)
        => getResult = (IF out_result = <<>> THEN Null
                        ELSE out_result[Len(out_result)])

\* C36: every vector the orchestrator sends for a block is accepted by the
\* array: it arrives when the array is not processing a previous vector, its
\* length is the array's row count, and it becomes the input of a new pass.
C36_EveryVectorAccepted ==
    [][(/\ inflight # <<>>
        /\ Head(inflight).port = "vector"
        /\ inflight' = Tail(inflight))
        => /\ ~processing_
           /\ Len(Head(inflight).data) = rows_
           /\ processing_'
           /\ current_input_' = Head(inflight).data]_vars

\* C37: when a block result is placed, every read results[r][c] with
\* r < block_rows and c < block_cols lies inside the bounds of the result
\* matrix the array emitted for that block.
C37_PlacementReadsInBounds ==
    hist.op \in {"results", "done"} =>
        \A p \in CopyPairs(hist.pa, hist.pb, hist.pblk[1], hist.pblk[2]) :
            /\ p[1] < hist.results.rows
            /\ p[2] < hist.results.cols

\* C38: during weight preparation every read of B uses indices inside B:
\* the row index is below B.rows and the column index col_offset + r is below
\* B.cols.
C38_WeightReadsInBounds ==
    ~hist.weights.null =>
        \A r \in 0..(systolic_rows_ - 1), c \in 0..(systolic_cols_ - 1) :
            WeightFilled(hist.wa, hist.wb, hist.wblk[1], hist.wblk[2], r, c)
                => /\ WeightSourceRow(r, c) < hist.wb.rows
                   /\ WeightSourceCol(hist.wblk[2], r, c) < hist.wb.cols

\* C39: the weight matrix the orchestrator sends always has exactly the
\* dimensions of the array it drives, so the array never rejects it: every
\* weight matrix delivered has rows_ rows and cols_ columns and is loaded.
C39_WeightsFitArray ==
    [][(/\ inflight # <<>>
        /\ Head(inflight).port = "weights"
        /\ inflight' = Tail(inflight))
        => /\ Head(inflight).data.rows = rows_
           /\ Head(inflight).data.cols = cols_
           /\ \A p \in Cells :
                pe_weight'[p] = Entry(Head(inflight).data, p[1], p[2])]_vars

\* C40: the run-then-read convention of runSimulation is sufficient: when the
\* result is read after expected_cycles cycles, the multiplier is no longer
\* busy and every block has been placed.
C40_RunThenReadSufficient ==
    sim.read => /\ ~sim.busy
                /\ sim.placed = TotalRowBlocks(hist.a) * TotalColBlocks(hist.b)

\* C40 for the multiplications whose row vectors have the length of the
\* array's rows.
C40_SufficientWhenVectorsFit ==
    (sim.read /\ hist.a.cols = rows_)
        => /\ ~sim.busy
           /\ sim.placed = TotalRowBlocks(hist.a) * TotalColBlocks(hist.b)

\* C40 for the execute variant, whose orchestrator issues a block only when
\* the result of the block before arrived: the cycles RunSimulation runs cover
\* one pass of the array per block.
C40_ExecuteBudgetSufficient ==
    \A blocks \in 1..(MaxSimBlocks * MaxSimBlocks) :
        blocks * XSimCyclesPerPass <= XExpectedCycles(blocks)

====
